---- MODULE Spec2Model ----
(***************************************************************************)
(* Model of the network ping monitor: the Index page (registry of panels, *)
(* recorded statuses, connectivity window) and the PingPanel component     *)
(* (probe timer, result history, statistics).                              *)
(*                                                                         *)
(* React is modelled at the granularity of committed states: the state     *)
(* updates queued by one event handler or one timer continuation are       *)
(* applied together (automatic batching), and the effects whose            *)
(* dependencies changed re-run in the same step.  A timer callback closes  *)
(* over the values of the render in which its effect last ran; the only    *)
(* value that can be stale while the timer is armed is `results`, because  *)
(* it is not in the dependency list.  A probe in flight keeps the closure  *)
(* of the timer callback that started it.                                  *)
(***************************************************************************)
EXTENDS Integers, Sequences, FiniteSets, TLC

VARIABLES
    panels,             \* Index: useState<Panel[]>
    panelStatuses,      \* Index: useState<Record<string, status>>
    globalSoundEnabled, \* Index: useState(true)
    internetConnected,  \* Index: useState<boolean | null>(null)
    packetLossHistory,  \* Index: useState<number[]>([])
    comps,              \* mounted PingPanel instances, by component instance
    inflight,           \* probes awaiting performPing, with their closures
    emitted,            \* toasts and sound alerts raised by the last step
    last,               \* the last operation and its arguments
    nextFiber,          \* next component instance number
    lastNow,            \* last value returned by Date.now(), 0 before the first call
    done,               \* number of probes completed (the result timestamp)
    nProbes,            \* probes started since Init
    nCmds               \* user commands since Init

vars == <<panels, panelStatuses, globalSoundEnabled, internetConnected,
          packetLossHistory, comps, inflight, emitted, last, nextFiber,
          lastNow, done, nProbes, nCmds>>

----------------------------------------------------------------------------
(* Program constants *)

Gateway == "192.168.1.1"
HistoryLimit == 100
WindowLimit == 20
WindowMin == 10
LossThreshold == 10
DefaultInterval == 1000
SimMaxMs == 110
FetchTimeoutMs == 5000

(* Bounds of the model *)

MaxProbes == 2
MaxCmds == 1

Null == "null"
BoolStr(b) == IF b THEN "true" ELSE "false"

IPv4Literals == {"192.168.1.1", "8.8.8.8"}
Hostnames == {"github.com"}
\* The addresses typed into the add-panel form and the target input.
Addresses == {"192.168.1.1"} \cup Hostnames \cup {""}
Titles == {"", "Panel"}
RespTimes == {20}
Intervals == {1000, 50, 0}
FirstNow == 100

Min(a, b) == IF a < b THEN a ELSE b
Max(a, b) == IF a > b THEN a ELSE b

----------------------------------------------------------------------------
(* performPing *)

\* targetUrl.match(/^\d+\.\d+\.\d+\.\d+$/) over the addresses of the model
IsIPv4Literal(address) == address \in IPv4Literals

\* What can happen to a probe of an address: the simulated delay elapses and
\* Math.random() < 0.05 or not; the fetch resolves, is aborted by the 5000 ms
\* timer, or is rejected by the network.
TransportEvents(address) ==
    IF IsIPv4Literal(address)
    THEN {[kind |-> "simulated", ms |-> rt, fails |-> f] :
             rt \in RespTimes, f \in BOOLEAN}
    ELSE {[kind |-> "resolved", ms |-> rt] : rt \in RespTimes}
         \cup {[kind |-> "rejected", name |-> "AbortError",
                message |-> "The operation was aborted."],
               [kind |-> "rejected", name |-> "TypeError",
                message |-> "Failed to fetch"]}

\* Variant of Caught that classifies every failure as 'error'.
CaughtNoTimeout(name, message) == [status |-> "error", error |-> message]

\* The catch block of performPing, for a thrown Error of this name and message.
Caught(name, message) ==
    [status |-> IF name = "AbortError" THEN "timeout" ELSE "error",
     error |-> message]

\* performPing(targetUrl) when `event` happens (timestamp added on completion).
performPing(targetUrl, event) ==
    IF IsIPv4Literal(targetUrl)
    THEN IF event.fails THEN Caught("Error", "Request timeout")
         ELSE [status |-> "success", responseTime |-> event.ms]
    ELSE IF event.kind = "rejected" THEN Caught(event.name, event.message)
         ELSE [status |-> "success", responseTime |-> event.ms]

\* The outcomes performPing can resolve to.
PingOutcomes(address) ==
    {performPing(address, e) : e \in TransportEvents(address)}

\* Upper bound of the time a probe of this address stays in flight.
ProbeMaxMs(address) == IF IsIPv4Literal(address) THEN SimMaxMs ELSE FetchTimeoutMs

\* Variant of Stamp that gives every result both fields.
StampBoth(outcome, t) ==
    [timestamp |-> t, status |-> outcome.status,
     responseTime |-> IF outcome.status = "success" THEN outcome.responseTime
                      ELSE 0,
     error |-> IF outcome.status = "success" THEN "" ELSE outcome.error]

Stamp(outcome, t) ==
    IF outcome.status = "success"
    THEN [timestamp |-> t, status |-> outcome.status,
          responseTime |-> outcome.responseTime]
    ELSE [timestamp |-> t, status |-> outcome.status, error |-> outcome.error]

----------------------------------------------------------------------------
(* PingPanel: the state updaters of the timer callback *)

\* Variant of NewResults that keeps one entry too many.
NewResultsOffByOne(prev, result) ==
    SubSeq(<<result>> \o prev, 1, Min(Len(prev) + 1, HistoryLimit + 1))

\* [result, ...prev].slice(0, 100)
NewResults(prev, result) ==
    SubSeq(<<result>> \o prev, 1, Min(Len(prev) + 1, HistoryLimit))

RECURSIVE SumTimes(_, _, _)
\* The sum of (r.responseTime || 0) over the successes among rs[lo..hi]
\* (the range is halved to keep the evaluation shallow; addition is associative).
SumTimes(rs, lo, hi) ==
    IF lo > hi THEN 0
    ELSE IF lo = hi
    THEN (IF rs[lo].status = "success" THEN rs[lo].responseTime ELSE 0)
    ELSE LET mid == (lo + hi) \div 2
         IN SumTimes(rs, lo, mid) + SumTimes(rs, mid + 1, hi)

\* results.filter(r => r.status === 'success').reduce((acc, r) => acc + (r.responseTime || 0), 0)
SumSuccessTimes(rs) == SumTimes(rs, 1, Len(rs))

\* Math.round(s / r) for integers s >= 0, r > 0 (halves round up)
RoundDiv(s, r) == (2 * s + r) \div (2 * r)

\* Variant of NewStats that counts the loss from the received count before
\* this result.
NewStatsStaleLost(prev, result, closed) ==
    LET sent == prev.sent + 1
        received == IF result.status = "success" THEN prev.received + 1
                    ELSE prev.received
        lost == sent - prev.received
    IN [sent |-> sent, received |-> received, lost |-> lost,
        avgTime |-> RoundDiv(SumSuccessTimes(closed), Max(received, 1))]

\* Variant of NewStats that counts the probes of the retained history.
NewStatsOfHistory(prev, result, closed) ==
    LET sent == Min(prev.sent + 1, HistoryLimit)
        received == Min(IF result.status = "success" THEN prev.received + 1
                        ELSE prev.received, sent)
        lost == sent - received
    IN [sent |-> sent, received |-> received, lost |-> lost,
        avgTime |-> RoundDiv(SumSuccessTimes(closed), Max(received, 1))]

\* Variant of NewStats that counts a probe as sent when it succeeds.
NewStatsSentOnSuccess(prev, result, closed) ==
    LET ok == result.status = "success"
        sent == IF ok THEN prev.sent + 1 ELSE prev.sent
        received == IF ok THEN prev.received + 1 ELSE prev.received
        lost == sent - received
    IN [sent |-> sent, received |-> received, lost |-> lost,
        avgTime |-> RoundDiv(SumSuccessTimes(closed), Max(received, 1))]

\* setStats(prev => ...); `closed` is the `results` the callback closed over
NewStats(prev, result, closed) ==
    LET sent == prev.sent + 1
        received == IF result.status = "success" THEN prev.received + 1
                    ELSE prev.received
        lost == sent - received
    IN [sent |-> sent, received |-> received, lost |-> lost,
        avgTime |-> RoundDiv(SumSuccessTimes(closed), Max(received, 1))]

\* Variant of StatusOf that maps every failure to 'error'.
StatusOfNoOffline(result) ==
    IF result.status = "success" THEN "online" ELSE "error"

StatusOf(result) ==
    IF result.status = "success" THEN "online"
    ELSE IF result.status = "timeout" THEN "offline" ELSE "error"

\* The id setInterval returns: a positive number no armed interval has.
\* (Ids are kept per panel and the smallest free one is taken; a cleared id
\* is named by intervalRef only until the next setInterval overwrites it.)
FreshTimer(armed) ==
    CHOOSE n \in 1..(Cardinality(armed) + 1) :
        n \notin armed /\ \A m \in 1..(n - 1) : m \in armed

\* Variant of Rearm whose cleanup does not clear the previous interval.
RearmNoCleanup(c) ==
    LET on == c.isRunning /\ c.target # ""
        timer == FreshTimer(c.timers)
    IN [c EXCEPT !.timers = IF on THEN c.timers \cup {timer} ELSE c.timers,
                 !.intervalRef = IF on THEN timer ELSE @,
                 !.timerMs = IF on THEN c.interval ELSE 0,
                 !.closedResults = IF on THEN c.results ELSE <<>>]

\* The monitoring effect re-runs: the cleanup of its previous run clears the
\* interval intervalRef.current names, then an interval of the current delay
\* is set when running with a target; its callback closes over the results
\* of the current render.
Rearm(c) ==
    LET on == c.isRunning /\ c.target # ""
        cleared == c.timers \ {c.intervalRef}
        timer == FreshTimer(cleared)
    IN [c EXCEPT !.timers = IF on THEN cleared \cup {timer} ELSE cleared,
                 !.intervalRef = IF on THEN timer ELSE @,
                 !.timerMs = IF on THEN c.interval ELSE 0,
                 !.closedResults = IF on THEN c.results ELSE <<>>]

NewComp(id, target, title) ==
    Rearm([id |-> id, target |-> target, title |-> title, isRunning |-> TRUE,
           interval |-> DefaultInterval, results |-> <<>>,
           currentStatus |-> "offline",
           stats |-> [sent |-> 0, received |-> 0, lost |-> 0, avgTime |-> 0],
           soundEnabled |-> TRUE, intervalRef |-> 0, timers |-> {},
           timerMs |-> 0,
           closedResults |-> <<>>])

----------------------------------------------------------------------------
(* Index *)

RECURSIVE FindPanel(_, _)
\* panels.find(p => p.id === id); <<>> stands for undefined
FindPanel(ps, id) ==
    IF ps = <<>> THEN <<>>
    ELSE IF Head(ps).id = id THEN <<Head(ps)>> ELSE FindPanel(Tail(ps), id)

\* Variant of FilterOut that splices at findIndex, which is -1 for an
\* unknown id and then names the last entry.
FilterOutSplice(ps, id) ==
    LET found == {i \in DOMAIN ps : ps[i].id = id}
        idx == IF found = {} THEN Len(ps)
               ELSE CHOOSE i \in found : \A j \in found : i <= j
    IN SubSeq(ps, 1, idx - 1) \o SubSeq(ps, idx + 1, Len(ps))

RECURSIVE FilterOut(_, _)
\* prev.filter(panel => panel.id !== id)
FilterOut(ps, id) ==
    IF ps = <<>> THEN <<>>
    ELSE IF Head(ps).id # id THEN <<Head(ps)>> \o FilterOut(Tail(ps), id)
         ELSE FilterOut(Tail(ps), id)

RECURSIVE SumSeq(_)
SumSeq(s) == IF s = <<>> THEN 0 ELSE Head(s) + SumSeq(Tail(s))

\* Variant of NewLossHistory that keeps the first 20 samples.
NewLossHistoryKeepOldest(prevHistory, status) ==
    LET h == Append(prevHistory, IF status = "online" THEN 0 ELSE 1)
    IN IF Len(h) > WindowLimit THEN SubSeq(h, 1, WindowLimit) ELSE h

\* [...prevHistory, bit].slice(-20)
NewLossHistory(prevHistory, status) ==
    LET h == Append(prevHistory, IF status = "online" THEN 0 ELSE 1)
    IN IF Len(h) > WindowLimit THEN SubSeq(h, Len(h) - WindowLimit + 1, Len(h))
       ELSE h

\* Variant of IsConnected with an inclusive threshold.
IsConnectedInclusive(h) == SumSeq(h) * 100 <= LossThreshold * Len(h)

\* packetLossPercentage < 10, with packetLossPercentage = lost / total * 100
\* (the floating-point comparison agrees with the integer one for total <= 20)
IsConnected(h) == SumSeq(h) * 100 < LossThreshold * Len(h)

\* packetLossPercentage.toFixed(1), in tenths of a percent
LossTenths(h) == (SumSeq(h) * 2000 + Len(h)) \div (2 * Len(h))

\* Variant of PutStatus that keeps the status an id already has.
PutStatusKeepFirst(prev, id, status) ==
    [k \in DOMAIN prev \cup {id} |-> IF k \in DOMAIN prev THEN prev[k] ELSE status]

\* { ...prev, [id]: status }
PutStatus(prev, id, status) ==
    [k \in DOMAIN prev \cup {id} |-> IF k = id THEN status ELSE prev[k]]

\* delete newStatuses[id]
DeleteStatus(prev, id) == [k \in DOMAIN prev \ {id} |-> prev[k]]

\* handleStatusChange(id, status), called through the closure `h` of the
\* render that created the callback; the updaters run on the current state `w`.
HandleStatusChange(w, h, id, status) ==
    LET found == FindPanel(h.panels, id)
        tracked == found # <<>> /\ found[1].target = Gateway
        newHistory == NewLossHistory(w.packetLossHistory, status)
        decided == tracked /\ Len(newHistory) >= WindowMin
        isConnected == BoolStr(IsConnected(newHistory))
        wasConnected == h.internetConnected
        toast == decided /\ wasConnected # Null /\ wasConnected # isConnected
                 /\ h.globalSoundEnabled
    IN [w EXCEPT
          !.panelStatuses = PutStatus(@, id, status),
          !.packetLossHistory = IF tracked THEN newHistory ELSE @,
          !.internetConnected = IF decided THEN isConnected ELSE @,
          !.emitted = @ \cup
              (IF toast
               THEN {[kind |-> "toast",
                      title |-> IF isConnected = "true" THEN "Internet Connected"
                                ELSE "Internet Disconnected",
                      lossTenths |-> LossTenths(newHistory)]}
               ELSE {})]

\* Variant of getOverallStatus that tests 'offline' before 'error'.
getOverallStatusOfflineFirst(statuses) ==
    IF \E k \in DOMAIN statuses : statuses[k] = "offline" THEN "offline"
    ELSE IF \E k \in DOMAIN statuses : statuses[k] = "error" THEN "error"
    ELSE IF \A k \in DOMAIN statuses : statuses[k] = "online" THEN "online"
    ELSE "unknown"

\* getOverallStatus()
getOverallStatus(statuses) ==
    IF \E k \in DOMAIN statuses : statuses[k] = "error" THEN "error"
    ELSE IF \E k \in DOMAIN statuses : statuses[k] = "offline" THEN "offline"
    ELSE IF \A k \in DOMAIN statuses : statuses[k] = "online" THEN "online"
    ELSE "unknown"

\* Object.values(panelStatuses).filter(s => s === 'online').length
onlineCount(statuses) == Cardinality({k \in DOMAIN statuses : statuses[k] = "online"})
totalCount(ps) == Len(ps)

----------------------------------------------------------------------------
(* The state as one record, so that a step is a function on states *)

World ==
    [panels |-> panels, panelStatuses |-> panelStatuses,
     globalSoundEnabled |-> globalSoundEnabled,
     internetConnected |-> internetConnected,
     packetLossHistory |-> packetLossHistory, comps |-> comps,
     inflight |-> inflight, emitted |-> emitted, last |-> last,
     nextFiber |-> nextFiber, lastNow |-> lastNow, done |-> done,
     nProbes |-> nProbes, nCmds |-> nCmds]

Becomes(w) ==
    /\ panels' = w.panels
    /\ panelStatuses' = w.panelStatuses
    /\ globalSoundEnabled' = w.globalSoundEnabled
    /\ internetConnected' = w.internetConnected
    /\ packetLossHistory' = w.packetLossHistory
    /\ comps' = w.comps
    /\ inflight' = w.inflight
    /\ emitted' = w.emitted
    /\ last' = w.last
    /\ nextFiber' = w.nextFiber
    /\ lastNow' = w.lastNow
    /\ done' = w.done
    /\ nProbes' = w.nProbes
    /\ nCmds' = w.nCmds

\* Variant of RearmAll in which the effects run their cleanup only.
RearmAllClearing(cs) == [f \in DOMAIN cs |-> [cs[f] EXCEPT !.timers = {}]]

\* Every mounted panel re-runs its monitoring effect (onStatusChange or
\* globalSoundEnabled changed identity/value).
RearmAll(cs) == [f \in DOMAIN cs |-> Rearm(cs[f])]

\* The closure of handleStatusChange created by the current render of Index.
HandlerOf(w) ==
    [panels |-> w.panels, internetConnected |-> w.internetConnected,
     globalSoundEnabled |-> w.globalSoundEnabled]

\* Variant of ProbeOf that probes the address of the registry entry.
ProbeOfRegistryTarget(w, f) ==
    [n |-> w.nProbes + 1, fiber |-> f, id |-> w.comps[f].id,
     target |-> FindPanel(w.panels, w.comps[f].id)[1].target,
     closedResults |-> w.comps[f].closedResults,
     handler |-> HandlerOf(w),
     globalSoundEnabled |-> w.globalSoundEnabled,
     soundEnabled |-> w.comps[f].soundEnabled]

\* The timer callback of instance f starts a probe: it awaits performPing
\* with everything it closed over.
ProbeOf(w, f) ==
    [n |-> w.nProbes + 1, fiber |-> f, id |-> w.comps[f].id,
     target |-> w.comps[f].target,
     closedResults |-> w.comps[f].closedResults,
     handler |-> HandlerOf(w),
     globalSoundEnabled |-> w.globalSoundEnabled,
     soundEnabled |-> w.comps[f].soundEnabled]

\* The continuation of the timer callback after `await performPing(target)`.
CompleteProbe(w, p, outcome) ==
    LET result == Stamp(outcome, w.done + 1)
        newStatus == StatusOf(result)
        mounted == p.fiber \in DOMAIN w.comps
        comps1 == IF mounted
                  THEN [w.comps EXCEPT ![p.fiber] =
                          [@ EXCEPT !.results = NewResults(@, result),
                                    !.stats = NewStats(@, result, p.closedResults),
                                    !.currentStatus = newStatus]]
                  ELSE w.comps
        sound == IF p.globalSoundEnabled /\ p.soundEnabled
                    /\ result.status # "success"
                 THEN {[kind |-> "sound",
                        alert |-> IF result.status = "timeout" THEN "timeout"
                                  ELSE "error"]}
                 ELSE {}
        w1 == [w EXCEPT !.comps = comps1, !.emitted = sound,
                        !.inflight = @ \ {p}, !.done = @ + 1,
                        !.last = [op |-> "complete", id |-> p.id,
                                  fiber |-> p.fiber, n |-> p.n,
                                  target |-> p.target,
                                  result |-> result, status |-> newStatus,
                                  mounted |-> mounted]]
        w2 == HandleStatusChange(w1, p.handler, p.id, newStatus)
    IN IF w2.internetConnected # w.internetConnected
       THEN [w2 EXCEPT !.comps = RearmAll(@)]
       ELSE w2

----------------------------------------------------------------------------
(* Initial states *)

\* The state after the first render of Index and of its one panel.
Fresh ==
    [panels |-> <<[id |-> "1", target |-> Gateway, title |-> "Local Gateway",
                   fiber |-> 1]>>,
     panelStatuses |-> <<>>,
     globalSoundEnabled |-> TRUE,
     internetConnected |-> Null,
     packetLossHistory |-> <<>>,
     comps |-> [f \in {1} |-> NewComp("1", Gateway, "Local Gateway")],
     inflight |-> {}, emitted |-> {}, last |-> [op |-> "init"],
     nextFiber |-> 2, lastNow |-> 0, done |-> 0,
     nProbes |-> 0, nCmds |-> 0]

\* The outcome of the k-th probe of a warm-up run: all probes succeed, or
\* one probe in every WindowLimit fails.
WarmOutcome(pattern, k) ==
    IF pattern = "periodicLoss" /\ k % WindowLimit = 1
    THEN [status |-> "error", error |-> "Request timeout"]
    ELSE [status |-> "success", responseTime |-> 20 + 10 * (k % 3)]

RECURSIVE WarmRun(_, _, _, _)
\* The state after probes lo..hi of a warm-up run of the initial panel, each
\* started and completed before the next, from state w.
WarmRun(w, pattern, lo, hi) ==
    IF lo > hi THEN w
    ELSE IF lo = hi
    THEN LET w1 == CompleteProbe(w, ProbeOf(w, 1), WarmOutcome(pattern, lo))
         IN [w1 EXCEPT !.emitted = {}, !.last = [op |-> "init"]]
    \* (half.done = mid always holds; the test fixes the evaluation order)
    ELSE LET mid == (lo + hi) \div 2
             half == WarmRun(w, pattern, lo, mid)
         IN IF half.done = mid THEN WarmRun(half, pattern, mid + 1, hi)
            ELSE half

Warm(pattern, n) == WarmRun(Fresh, pattern, 1, n)

\* Warm-up runs: a fresh page, a window one sample short of a verdict, and a
\* history one entry short of full whose window holds a loss.
WarmUps ==
    {[n |-> 0, pattern |-> "allOk"],
     [n |-> WindowMin - 1, pattern |-> "allOk"],
     [n |-> HistoryLimit - 1, pattern |-> "periodicLoss"]}

Init ==
    \E run \in WarmUps :
        LET w == Warm(run.pattern, run.n)
        IN /\ panels = w.panels
           /\ panelStatuses = w.panelStatuses
           /\ globalSoundEnabled = w.globalSoundEnabled
           /\ internetConnected = w.internetConnected
           /\ packetLossHistory = w.packetLossHistory
           /\ comps = w.comps
           /\ inflight = w.inflight
           /\ emitted = w.emitted
           /\ last = w.last
           /\ nextFiber = w.nextFiber
           /\ lastNow = w.lastNow
           /\ done = w.done
           /\ nProbes = w.nProbes
           /\ nCmds = w.nCmds

----------------------------------------------------------------------------
(* Actions *)

Fibers == DOMAIN comps

\* Date.now(): the millisecond of the previous call or a later one.
NowValues == IF lastNow = 0 THEN {FirstNow} ELSE {lastNow, lastNow + 1}

\* Variant of TickStart that fires without an armed interval.
TickStartUnguarded(f) ==
    /\ nProbes < MaxProbes
    /\ \A p \in inflight :
          p.fiber = f => comps[f].timerMs < ProbeMaxMs(p.target)
    /\ Becomes([World EXCEPT
          !.inflight = @ \cup {ProbeOf(World, f)},
          !.nProbes = @ + 1,
          !.emitted = {},
          !.last = [op |-> "tick", id |-> comps[f].id, fiber |-> f]])

\* A tick of an armed interval of instance f.  A second probe of the same
\* instance can be in flight only when the delay of the interval is shorter
\* than the time the earlier probe may take.
TickStart(f) ==
    /\ nProbes < MaxProbes
    /\ comps[f].timers # {}
    /\ \A p \in inflight :
          p.fiber = f => comps[f].timerMs < ProbeMaxMs(p.target)
    /\ Becomes([World EXCEPT
          !.inflight = @ \cup {ProbeOf(World, f)},
          !.nProbes = @ + 1,
          !.emitted = {},
          !.last = [op |-> "tick", id |-> comps[f].id, fiber |-> f]])

\* performPing resolves and the callback continues.
ProbeComplete(p, event) ==
    /\ p \in inflight
    /\ event \in TransportEvents(p.target)
    /\ \E w \in {CompleteProbe(World, p, performPing(p.target, event))} :
          Becomes([w EXCEPT !.last = [event |-> event] @@ @])

\* Variant of AddPanelTo without the test of handleSubmit.
AddPanelToUnchecked(w, target, title, now) ==
    LET id == ToString(now)
        newPanel == [id |-> id, target |-> target, title |-> title,
                     fiber |-> w.nextFiber]
        cs == [f \in DOMAIN w.comps \cup {w.nextFiber} |->
                 IF f = w.nextFiber THEN NewComp(id, target, title)
                 ELSE w.comps[f]]
    IN [w EXCEPT
          !.panels = Append(@, newPanel),
          !.comps = RearmAll(cs),
          !.nextFiber = @ + 1,
          !.lastNow = now,
          !.emitted = {},
          !.last = [op |-> "addPanel", id |-> id, accepted |-> TRUE,
                    target |-> target, title |-> title]]

\* The state after AddPanelButton.handleSubmit with this target and title,
\* and Index.addPanel at Date.now() = now when it accepts.
AddPanelTo(w, target, title, now) ==
    IF target # "" /\ title # ""
    THEN LET id == ToString(now)
             newPanel == [id |-> id, target |-> target, title |-> title,
                          fiber |-> w.nextFiber]
             cs == [f \in DOMAIN w.comps \cup {w.nextFiber} |->
                      IF f = w.nextFiber THEN NewComp(id, target, title)
                      ELSE w.comps[f]]
         IN [w EXCEPT
               !.panels = Append(@, newPanel),
               !.comps = RearmAll(cs),
               !.nextFiber = @ + 1,
               !.lastNow = now,
               !.emitted = {},
               !.last = [op |-> "addPanel", id |-> id, accepted |-> TRUE,
                         target |-> target, title |-> title]]
    ELSE [w EXCEPT
               !.emitted = {},
               !.last = [op |-> "addPanel", id |-> "", accepted |-> FALSE,
                         target |-> target, title |-> title]]

\* The submit of the add-panel form.
AddPanel(target, title, now) ==
    /\ nCmds < MaxCmds
    /\ now \in NowValues
    /\ Becomes([AddPanelTo(World, target, title, now) EXCEPT !.nCmds = @ + 1])

\* Variant of RemovePanel that empties the connectivity window and forgets
\* the verdict when a panel of the gateway address is removed.
RemovePanelResetting(id) ==
    /\ nCmds < MaxCmds
    /\ LET ps == FilterOut(panels, id)
           kept == {ps[i].fiber : i \in DOMAIN ps}
           designated == \E i \in DOMAIN panels :
                             panels[i].id = id /\ panels[i].target = Gateway
       IN Becomes([World EXCEPT
             !.panels = ps,
             !.panelStatuses = DeleteStatus(@, id),
             !.packetLossHistory = IF designated THEN <<>> ELSE @,
             !.internetConnected = IF designated THEN Null ELSE @,
             !.comps = RearmAll([f \in kept |-> comps[f]]),
             !.nCmds = @ + 1,
             !.emitted = {},
             !.last = [op |-> "removePanel", id |-> id,
                       designated |-> designated]])

\* Index.removePanel(id); the X button of a panel calls it with the panel's id.
RemovePanel(id) ==
    /\ nCmds < MaxCmds
    /\ LET ps == FilterOut(panels, id)
           kept == {ps[i].fiber : i \in DOMAIN ps}
       IN Becomes([World EXCEPT
             !.panels = ps,
             !.panelStatuses = DeleteStatus(@, id),
             !.comps = RearmAll([f \in kept |-> comps[f]]),
             !.nCmds = @ + 1,
             !.emitted = {},
             !.last = [op |-> "removePanel", id |-> id,
                       designated |-> \E i \in DOMAIN panels :
                           panels[i].id = id /\ panels[i].target = Gateway]])

\* Variant of ToggleRunning that aborts the probes of the panel.
ToggleRunningAborting(f) ==
    /\ nCmds < MaxCmds
    /\ Becomes([World EXCEPT
          !.comps[f] = Rearm([@ EXCEPT !.isRunning = ~@]),
          !.inflight = {p \in @ : p.fiber # f},
          !.nCmds = @ + 1,
          !.emitted = {},
          !.last = [op |-> "toggleRunning", id |-> comps[f].id, fiber |-> f]])

\* The play/pause button: setIsRunning(!isRunning).
ToggleRunning(f) ==
    /\ nCmds < MaxCmds
    /\ Becomes([World EXCEPT
          !.comps[f] = Rearm([@ EXCEPT !.isRunning = ~@]),
          !.nCmds = @ + 1,
          !.emitted = {},
          !.last = [op |-> "toggleRunning", id |-> comps[f].id, fiber |-> f]])

\* The title input of the header: setTitle(e.target.value).
SetTitle(f, title) ==
    /\ nCmds < MaxCmds
    /\ title # comps[f].title
    /\ Becomes([World EXCEPT
          !.comps[f].title = title,
          !.nCmds = @ + 1,
          !.emitted = {},
          !.last = [op |-> "setTitle", id |-> comps[f].id, fiber |-> f]])

\* Variant of SetTarget that starts the statistics of the new address at 0.
SetTargetResetting(f, address) ==
    /\ nCmds < MaxCmds
    /\ address # comps[f].target
    /\ Becomes([World EXCEPT
          !.comps[f] = Rearm([@ EXCEPT !.target = address,
                                       !.stats = [sent |-> 0, received |-> 0,
                                                  lost |-> 0, avgTime |-> 0]]),
          !.nCmds = @ + 1,
          !.emitted = {},
          !.last = [op |-> "setTarget", id |-> comps[f].id, fiber |-> f]])

\* The target input of the settings: setTarget(e.target.value).
SetTarget(f, address) ==
    /\ nCmds < MaxCmds
    /\ address # comps[f].target
    /\ Becomes([World EXCEPT
          !.comps[f] = Rearm([@ EXCEPT !.target = address]),
          !.nCmds = @ + 1,
          !.emitted = {},
          !.last = [op |-> "setTarget", id |-> comps[f].id, fiber |-> f]])

\* The interval input of the settings: setIntervalTime(Number(e.target.value)).
SetInterval(f, ms) ==
    /\ nCmds < MaxCmds
    /\ ms # comps[f].interval
    /\ Becomes([World EXCEPT
          !.comps[f] = Rearm([@ EXCEPT !.interval = ms]),
          !.nCmds = @ + 1,
          !.emitted = {},
          !.last = [op |-> "setInterval", id |-> comps[f].id, fiber |-> f]])

\* The global sound button: setGlobalSoundEnabled(!globalSoundEnabled).
ToggleGlobalSound ==
    /\ nCmds < MaxCmds
    /\ Becomes([World EXCEPT
          !.globalSoundEnabled = ~@,
          !.comps = RearmAll(@),
          !.nCmds = @ + 1,
          !.emitted = {},
          !.last = [op |-> "toggleGlobalSound"]])

\* The panel sound checkbox (disabled while the global sound is off).
ToggleLocalSound(f) ==
    /\ nCmds < MaxCmds
    /\ globalSoundEnabled
    /\ Becomes([World EXCEPT
          !.comps[f] = Rearm([@ EXCEPT !.soundEnabled = ~@]),
          !.nCmds = @ + 1,
          !.emitted = {},
          !.last = [op |-> "toggleLocalSound", id |-> comps[f].id, fiber |-> f]])

Next ==
    \/ \E f \in Fibers : TickStart(f)
    \/ \E p \in inflight : \E event \in TransportEvents(p.target) :
          ProbeComplete(p, event)
    \/ \E target \in Addresses, title \in Titles, now \in NowValues :
          AddPanel(target, title, now)
    \/ \E i \in DOMAIN panels : RemovePanel(panels[i].id)
    \/ \E f \in Fibers : ToggleRunning(f)
    \/ \E f \in Fibers, title \in Titles : SetTitle(f, title)
    \/ \E f \in Fibers, address \in Addresses : SetTarget(f, address)
    \/ \E f \in Fibers, ms \in Intervals : SetInterval(f, ms)
    \/ ToggleGlobalSound
    \/ \E f \in Fibers : ToggleLocalSound(f)

Spec == Init /\ [][Next]_vars

\* The panel instances a run can mount.
FiberIds == 1..(MaxCmds + 1)

StartsAs(w) ==
    /\ panels = w.panels
    /\ panelStatuses = w.panelStatuses
    /\ globalSoundEnabled = w.globalSoundEnabled
    /\ internetConnected = w.internetConnected
    /\ packetLossHistory = w.packetLossHistory
    /\ comps = w.comps
    /\ inflight = w.inflight
    /\ emitted = w.emitted
    /\ last = w.last
    /\ nextFiber = w.nextFiber
    /\ lastNow = w.lastNow
    /\ done = w.done
    /\ nProbes = w.nProbes
    /\ nCmds = w.nCmds

\* The warm-up runs of the liveness specification: a fresh page and a
\* window one sample short of a verdict.
LiveWarmUps == {run \in WarmUps : run.n < WindowMin}

LiveInit == \E run \in LiveWarmUps : StartsAs(Warm(run.pattern, run.n))

\* The probes and the commands that stop, start or re-set an interval.
LiveNext ==
    \/ \E f \in Fibers : TickStart(f)
    \/ \E p \in inflight : \E event \in TransportEvents(p.target) :
          ProbeComplete(p, event)
    \/ \E f \in Fibers : ToggleRunning(f)
    \/ \E f \in Fibers, ms \in Intervals : SetInterval(f, ms)

\* An armed interval fires, and performPing resolves: the simulated delay
\* elapses, and a fetch resolves, is rejected or is aborted after 5000 ms.
\* The completion of a probe is the one step that increases done, and it
\* can happen exactly when a probe is in flight.
LiveSpec ==
    /\ LiveInit
    /\ [][LiveNext]_vars
    /\ \A f \in FiberIds : WF_vars(f \in Fibers /\ TickStart(f))
    /\ WF_done(inflight # {} /\ done' = done + 1)

\* The fresh page, and the page after one panel was added to it.
RegistryInit ==
    \/ StartsAs(Fresh)
    \/ StartsAs([AddPanelTo(Fresh, "github.com", "Panel", FirstNow)
                   EXCEPT !.last = [op |-> "init"]])

\* Ids that no panel has.
UnknownIds == {"0"}

\* The probes and the commands of the registry, removePanel called with an
\* id of no panel included.
RegistryNext ==
    \/ \E f \in Fibers : TickStart(f)
    \/ \E p \in inflight : \E event \in TransportEvents(p.target) :
          ProbeComplete(p, event)
    \/ \E target \in Addresses, title \in Titles, now \in NowValues :
          AddPanel(target, title, now)
    \/ \E i \in DOMAIN panels : RemovePanel(panels[i].id)
    \/ \E id \in UnknownIds : RemovePanel(id)

RegistrySpec == RegistryInit /\ [][RegistryNext]_vars

----------------------------------------------------------------------------
(* The Index pages with a per-panel "Connection Lost" notification *)

GoogleDns == "8.8.8.8"

\* The toast of handleStatusChange for a status of this registry entry.
ConnectionLost(panel, status) ==
    [kind |-> "toast", title |-> "Connection Lost",
     panel |-> panel.title, target |-> panel.target, status |-> status]

\* handleStatusChange(id, status) of the page with a global sound toggle,
\* called through the closure `h`; the updater runs on the current state `w`.
HandleStatusChangeGated(w, h, id, status) ==
    LET prev == w.panelStatuses
        changed == id \in DOMAIN prev /\ prev[id] # status
        found == FindPanel(h.panels, id)
        toast == /\ changed
                 /\ found # <<>>
                 /\ status \in {"offline", "error"}
                 /\ h.globalSoundEnabled
    IN [w EXCEPT
          !.panelStatuses = PutStatus(@, id, status),
          !.emitted = @ \cup (IF toast THEN {ConnectionLost(found[1], status)}
                              ELSE {})]

\* handleStatusChange(id, status) of the page without a global sound toggle.
HandleStatusChangeUngated(w, h, id, status) ==
    LET prev == w.panelStatuses
        changed == id \in DOMAIN prev /\ prev[id] # status
        found == FindPanel(h.panels, id)
        toast == /\ changed
                 /\ found # <<>>
                 /\ status \in {"offline", "error"}
    IN [w EXCEPT
          !.panelStatuses = PutStatus(@, id, status),
          !.emitted = @ \cup (IF toast THEN {ConnectionLost(found[1], status)}
                              ELSE {})]

\* The continuation of the timer callback after `await performPing(target)`
\* up to its call of onStatusChange: the updaters of the panel and the sound.
PanelContinuation(w, p, outcome) ==
    LET result == Stamp(outcome, w.done + 1)
        newStatus == StatusOf(result)
        mounted == p.fiber \in DOMAIN w.comps
        comps1 == IF mounted
                  THEN [w.comps EXCEPT ![p.fiber] =
                          [@ EXCEPT !.results = NewResults(@, result),
                                    !.stats = NewStats(@, result, p.closedResults),
                                    !.currentStatus = newStatus]]
                  ELSE w.comps
        sound == IF p.globalSoundEnabled /\ p.soundEnabled
                    /\ result.status # "success"
                 THEN {[kind |-> "sound",
                        alert |-> IF result.status = "timeout" THEN "timeout"
                                  ELSE "error"]}
                 ELSE {}
    IN [w EXCEPT !.comps = comps1, !.emitted = sound,
                 !.inflight = @ \ {p}, !.done = @ + 1,
                 !.last = [op |-> "complete", id |-> p.id,
                           fiber |-> p.fiber, n |-> p.n,
                           target |-> p.target,
                           result |-> result, status |-> newStatus,
                           mounted |-> mounted]]

\* The state after the first render of these pages and of their two panels.
TwoPanels ==
    [Fresh EXCEPT
        !.panels = <<[id |-> "1", target |-> Gateway, title |-> "Local Gateway",
                      fiber |-> 1],
                     [id |-> "2", target |-> GoogleDns, title |-> "Google DNS",
                      fiber |-> 2]>>,
        !.comps = [f \in {1, 2} |->
                     IF f = 1 THEN NewComp("1", Gateway, "Local Gateway")
                     ELSE NewComp("2", GoogleDns, "Google DNS")],
        !.nextFiber = 3]

GatedInit == StartsAs(TwoPanels)

\* performPing resolves on the page with a global sound toggle.
GatedProbeComplete(p, event) ==
    /\ p \in inflight
    /\ event \in TransportEvents(p.target)
    /\ \E w1 \in {PanelContinuation(World, p, performPing(p.target, event))} :
          \E w \in {HandleStatusChangeGated(w1, p.handler, p.id, w1.last.status)} :
             Becomes([w EXCEPT !.last = [event |-> event] @@ @])

GatedNext ==
    \/ \E f \in Fibers : TickStart(f)
    \/ \E p \in inflight : \E event \in TransportEvents(p.target) :
          GatedProbeComplete(p, event)
    \/ \E target \in Addresses, title \in Titles, now \in NowValues :
          AddPanel(target, title, now)
    \/ \E i \in DOMAIN panels : RemovePanel(panels[i].id)
    \/ ToggleGlobalSound

GatedSpec == GatedInit /\ [][GatedNext]_vars

\* performPing resolves on the page without a global sound toggle.
UngatedProbeComplete(p, event) ==
    /\ p \in inflight
    /\ event \in TransportEvents(p.target)
    /\ \E w1 \in {PanelContinuation(World, p, performPing(p.target, event))} :
          \E w \in {HandleStatusChangeUngated(w1, p.handler, p.id, w1.last.status)} :
             Becomes([w EXCEPT !.last = [event |-> event] @@ @])

UngatedNext ==
    \/ \E f \in Fibers : TickStart(f)
    \/ \E p \in inflight : \E event \in TransportEvents(p.target) :
          UngatedProbeComplete(p, event)
    \/ \E target \in Addresses, title \in Titles, now \in NowValues :
          AddPanel(target, title, now)
    \/ \E i \in DOMAIN panels : RemovePanel(panels[i].id)

UngatedSpec == GatedInit /\ [][UngatedNext]_vars

----------------------------------------------------------------------------
(* Properties *)

PanelIds == {panels[i].id : i \in DOMAIN panels}

\* The classification of a probe outcome, as the data model states it.
Classification(status) ==
    CASE status = "success" -> "online"
      [] status = "timeout" -> "offline"
      [] status = "error" -> "error"

\* The last step applied a probe result to a panel that is still mounted.
TickApplied == last.op = "complete" /\ last.mounted

\* C1: for every target, lost = sent - received in every state, whatever
\* ticks (overlapping or not), edits and start/stop toggles led to it.
C1_LostIsSentMinusReceived ==
    \A f \in DOMAIN comps :
        comps[f].stats.lost = comps[f].stats.sent - comps[f].stats.received

\* A tick was applied after a user command, with both a received and a
\* lost probe counted.
C1_Witness ==
    /\ TickApplied
    /\ nCmds > 0
    /\ comps[last.fiber].stats.received > 0
    /\ comps[last.fiber].stats.lost > 0

\* The history h is most-recent-first and within the limit.
HistoryOrdered(h) ==
    /\ Len(h) <= HistoryLimit
    /\ \A i \in 1..(Len(h) - 1) : h[i].timestamp > h[i + 1].timestamp

\* A tick applied to history h gives h2: the new result in front, the
\* others behind it in their order, and only the last one dropped at the limit.
HistoryPrepended(h, h2, result) ==
    /\ Len(h2) = IF Len(h) < HistoryLimit THEN Len(h) + 1 ELSE HistoryLimit
    /\ h2[1] = result
    /\ \A i \in 2..Len(h2) : h2[i] = h[i - 1]

\* C2: every history is most-recent-first and never longer than 100; a tick
\* applied to a full history drops exactly the oldest entry and keeps the
\* order of the others.
C2_HistoryBoundedOldestEvicted ==
    /\ [](\A f \in DOMAIN comps : HistoryOrdered(comps[f].results))
    /\ [][TickApplied' /\ last'.fiber \in DOMAIN comps
            => HistoryPrepended(comps[last'.fiber].results,
                                comps'[last'.fiber].results, last'.result)]_vars

\* A tick was applied to a full history and the oldest entry is gone.
C2_Witness ==
    /\ TickApplied
    /\ Len(comps[last.fiber].results) = HistoryLimit
    /\ comps[last.fiber].results[HistoryLimit].timestamp > 1

\* C3: with a non-empty history the status of a panel is the classification
\* of its most recent result; before the first result it is the initial
\* value 'offline'.
C3_StatusIsClassOfLatest ==
    \A f \in DOMAIN comps :
        IF comps[f].results = <<>>
        THEN comps[f].currentStatus = "offline"
        ELSE comps[f].currentStatus = Classification(comps[f].results[1].status)

\* A probe completed while an earlier probe of the same panel was still in
\* flight, and its result is not a success.
C3_Witness ==
    /\ TickApplied
    /\ \E p \in inflight : p.fiber = last.fiber /\ p.n < last.n
    /\ comps[last.fiber].currentStatus # "online"

SuccessCount(h) == Cardinality({i \in DOMAIN h : h[i].status = "success"})

\* The rounded mean response time of the successes of history h, 0 if none.
MeanOfHistory(h) ==
    IF SuccessCount(h) = 0 THEN 0
    ELSE RoundDiv(SumSuccessTimes(h), SuccessCount(h))

\* C4: after every tick avgTime is the rounded mean response time over the
\* successes of the retained history, the result just applied included.
C4_AvgIsMeanOfHistory ==
    TickApplied =>
        comps[last.fiber].stats.avgTime = MeanOfHistory(comps[last.fiber].results)

LostSamples(h) == Cardinality({i \in DOMAIN h : h[i] = 1})

\* C5: the verdict is unknown below 10 samples; from 10 samples on it is
\* 'disconnected' exactly when lost/total >= 0.10 over the window.
C5_VerdictFollowsThreshold ==
    IF Len(packetLossHistory) < WindowMin
    THEN internetConnected = Null
    ELSE internetConnected =
            (IF 10 * LostSamples(packetLossHistory) >= Len(packetLossHistory)
             THEN "false" ELSE "true")

\* Ten samples with exactly one loss: disconnected.
C5_Witness ==
    /\ last.op = "complete"
    /\ Len(packetLossHistory) = WindowMin
    /\ LostSamples(packetLossHistory) = 1
    /\ internetConnected = "false"

\* The window h after one more sample.
WindowAppended(h, bit) ==
    IF Len(h) < WindowLimit THEN Append(h, bit) ELSE Tail(h) \o <<bit>>

\* C6: the window never holds more than 20 samples; it changes only by a
\* status event, which appends one sample (0 for online, 1 otherwise) and
\* evicts the oldest on overflow; every status event of a mounted panel
\* whose registry entry has the gateway address does so.
C6_OneSamplePerEvent ==
    /\ [](Len(packetLossHistory) <= WindowLimit)
    /\ [][LET bit == IF last'.status = "online" THEN 0 ELSE 1
              entries == {i \in DOMAIN panels : panels[i].id = last'.id}
          IN /\ packetLossHistory' # packetLossHistory
                  => /\ last'.op = "complete"
                     /\ packetLossHistory' = WindowAppended(packetLossHistory, bit)
             /\ ( /\ TickApplied'
                  /\ Cardinality(entries) = 1
                  /\ \A i \in entries : panels[i].target = Gateway )
                  => packetLossHistory' = WindowAppended(packetLossHistory, bit)
        ]_vars

\* A full window took one more sample and the loss that was its oldest
\* sample is gone.
C6_Witness ==
    /\ TickApplied
    /\ done = HistoryLimit + 1
    /\ Len(packetLossHistory) = WindowLimit
    /\ LostSamples(packetLossHistory) = 0

\* C7: removing the designated target empties the window and makes the
\* verdict unknown, and no later event of a removed target adds a sample.
C7_RemoveResetsWindow ==
    [][ /\ (last'.op = "removePanel" /\ last'.designated)
            => (packetLossHistory' = <<>> /\ internetConnected' = Null)
        /\ (last'.op = "complete" /\ last'.id \notin PanelIds)
            => packetLossHistory' = packetLossHistory ]_vars

RecordedStatuses == {panelStatuses[k] : k \in DOMAIN panelStatuses}

\* C8: the overall status of the current recorded statuses is 'error' if any
\* is 'error', else 'offline' if any is 'offline', else 'online' if there are
\* statuses and all are 'online'.
C8_OverallStatusPriority ==
    LET overall == getOverallStatus(panelStatuses)
    IN /\ "error" \in RecordedStatuses => overall = "error"
       /\ ("error" \notin RecordedStatuses /\ "offline" \in RecordedStatuses)
             => overall = "offline"
       /\ (RecordedStatuses = {"online"}) => overall = "online"

\* One panel is recorded 'error' and another 'offline'.
C8_Witness ==
    /\ "error" \in RecordedStatuses
    /\ "offline" \in RecordedStatuses
    /\ last.op = "complete"

\* C9: the overall status is 'unknown' when there is no target or no target
\* has completed a probe, and 'online' only when every target of the registry
\* is recorded 'online'.
C9_UnknownWithoutResults ==
    LET overall == getOverallStatus(panelStatuses)
    IN /\ (panels = <<>> \/ DOMAIN panelStatuses = {}) => overall = "unknown"
       /\ overall = "online"
             => \A id \in PanelIds :
                   id \in DOMAIN panelStatuses /\ panelStatuses[id] = "online"

\* C10: no status is recorded for an id that is not in the registry, so the
\* online count never exceeds the number of targets.
C10_NoStatusOfRemovedTarget ==
    /\ DOMAIN panelStatuses \subseteq PanelIds
    /\ onlineCount(panelStatuses) <= totalCount(panels)

\* The connectivity-changed notifications among the emissions es.
ToastsOf(es) == {e \in es : e.kind = "toast"}

\* The step changes the verdict from connected to disconnected or back.
VerdictFlips ==
    /\ internetConnected # Null
    /\ internetConnected' # Null
    /\ internetConnected' # internetConnected

\* C11: a connectivity-changed notification is emitted only by a step that
\* flips the verdict between connected and disconnected: not when the verdict
\* leaves unknown, not when it stays the same, not a second time for a flip
\* that an earlier step made.
C11_NotifiedOnlyOnFlip ==
    [][ToastsOf(emitted') # {} => VerdictFlips]_vars

\* C12: every step that flips the verdict between connected and disconnected
\* emits a notification that carries the new verdict and the loss percentage
\* of the window after the step.
C12_EveryFlipNotified ==
    [][VerdictFlips =>
          \E e \in ToastsOf(emitted') :
              /\ e.title = (IF internetConnected' = "true"
                            THEN "Internet Connected" ELSE "Internet Disconnected")
              /\ e.lossTenths = LossTenths(packetLossHistory')]_vars

\* The registry entries whose events feed the connectivity window.
Designated == {i \in DOMAIN panels : panels[i].target = Gateway}

\* C13: at most one target of the registry is connectivity-designated, and a
\* status event of any other target of the registry leaves the window and
\* the verdict unchanged.
C13_SingleDesignatedTarget ==
    /\ [](Cardinality(Designated) <= 1)
    /\ [][ ( /\ last'.op = "complete"
             /\ last'.id \in PanelIds
             /\ \E i \in Designated :
                   /\ \A j \in Designated : i <= j
                   /\ panels[i].id # last'.id )
           => UNCHANGED <<packetLossHistory, internetConnected>> ]_vars

\* C14: no two probes of the same panel are in flight together.
C14_NoConcurrentTicks ==
    \A p, q \in inflight : p.fiber = q.fiber => p = q

\* The sent, received and lost counters of statistics st.
Counters(st) == <<st.sent, st.received, st.lost>>

\* Statistics st after one more result.
Counted(st, result) ==
    <<st.sent + 1,
      IF result.status = "success" THEN st.received + 1 ELSE st.received,
      IF result.status = "success" THEN st.lost ELSE st.lost + 1>>

\* C15: a step that completes a probe of a mounted panel takes exactly that
\* probe out of flight, puts its result in front of the panel's history
\* (after every result completed earlier) and records exactly the status of
\* that result for the panel's id; no other step adds a result or records
\* a status, so results and status events follow the order of completion.
C15_AppliedOnceInOrder ==
    [][ /\ (last'.op = "complete" /\ last'.mounted) =>
              LET f == last'.fiber
              IN /\ Cardinality(inflight \ inflight') = 1
                 /\ inflight' \subseteq inflight
                 /\ HistoryPrepended(comps[f].results, comps'[f].results,
                                     last'.result)
                 /\ \A i \in DOMAIN comps[f].results :
                       comps[f].results[i].timestamp < last'.result.timestamp
                 /\ \A g \in DOMAIN comps \ {f} :
                       g \in DOMAIN comps' /\ comps'[g].results = comps[g].results
                 /\ last'.id \in DOMAIN panelStatuses'
                 /\ panelStatuses'[last'.id] = Classification(last'.result.status)
                 /\ \A k \in DOMAIN panelStatuses' \ {last'.id} :
                       k \in DOMAIN panelStatuses
                       /\ panelStatuses'[k] = panelStatuses[k]
        /\ last'.op # "complete" =>
              /\ \A f \in DOMAIN comps \cap DOMAIN comps' :
                    comps'[f].results = comps[f].results
              /\ \A k \in DOMAIN panelStatuses' :
                    k \in DOMAIN panelStatuses
                    /\ panelStatuses'[k] = panelStatuses[k] ]_vars

\* The probe started first completed first while a probe of the same panel
\* started later is still in flight, and its status is recorded.
C15_Witness ==
    /\ TickApplied
    /\ \E p \in inflight : p.fiber = last.fiber /\ p.n > last.n
    /\ comps[last.fiber].results[1] = last.result
    /\ panelStatuses[last.id] = Classification(last.result.status)

\* C16: an interval is armed only while the panel is running with a
\* non-empty address, and every step that starts a probe starts it for a
\* panel that is running with a non-empty address.
C16_NoProbeWhileStopped ==
    /\ [](\A f \in DOMAIN comps :
             comps[f].timers # {} => comps[f].isRunning /\ comps[f].target # "")
    /\ [][\A p \in inflight' \ inflight :
             /\ p.fiber \in DOMAIN comps
             /\ comps[p.fiber].isRunning
             /\ comps[p.fiber].target # ""
             /\ p.target # ""]_vars

\* A panel was stopped, or its address emptied, while one of its probes was
\* in flight: its interval is cleared.
C16_Witness ==
    /\ last.op \in {"toggleRunning", "setTarget"}
    /\ ~(comps[last.fiber].isRunning /\ comps[last.fiber].target # "")
    /\ comps[last.fiber].timers = {}
    /\ \E p \in inflight : p.fiber = last.fiber

\* C17: the run/pause toggle leaves the probes in flight, and a probe
\* that completes while its panel is stopped leaves flight, puts its result
\* in front of the history, is counted once in sent/received/lost and
\* records its status.
C17_InflightSurvivesStop ==
    [][ /\ last'.op = "toggleRunning" => inflight' = inflight
        /\ ( /\ last'.op = "complete"
              /\ last'.mounted
              /\ ~comps[last'.fiber].isRunning ) =>
              LET f == last'.fiber
              IN /\ Cardinality(inflight \ inflight') = 1
                 /\ HistoryPrepended(comps[f].results, comps'[f].results,
                                     last'.result)
                 /\ Counters(comps'[f].stats) = Counted(comps[f].stats, last'.result)
                 /\ last'.id \in DOMAIN panelStatuses'
                 /\ panelStatuses'[last'.id] = Classification(last'.result.status)
      ]_vars

\* A probe completed after its panel was stopped and its result is in the
\* history and in the counters.
C17_Witness ==
    /\ TickApplied
    /\ ~comps[last.fiber].isRunning
    /\ comps[last.fiber].timers = {}
    /\ comps[last.fiber].results[1] = last.result
    /\ comps[last.fiber].stats.sent = Len(comps[last.fiber].results)

\* The commands of a panel that the claim C18 names.
PanelEdits == {"toggleRunning", "setTarget", "setTitle", "setInterval"}

\* C18: stop, start and the edits of address, title and interval leave the
\* history and the sent/received/lost counters of every panel unchanged;
\* a history or a counter changes only in a step that completes a probe of
\* that panel.
C18_CommandsKeepHistoryAndCounters ==
    [][ /\ last'.op \in PanelEdits =>
              \A f \in DOMAIN comps :
                  /\ f \in DOMAIN comps'
                  /\ comps'[f].results = comps[f].results
                  /\ Counters(comps'[f].stats) = Counters(comps[f].stats)
        /\ \A f \in DOMAIN comps \cap DOMAIN comps' :
              ( \/ comps'[f].results # comps[f].results
                \/ Counters(comps'[f].stats) # Counters(comps[f].stats) )
              => (last'.op = "complete" /\ last'.fiber = f) ]_vars

\* The address of a panel with a long history and a lost probe was edited.
C18_Witness ==
    /\ last.op = "setTarget"
    /\ Len(comps[last.fiber].results) = HistoryLimit - 1
    /\ comps[last.fiber].stats.lost > 0
    /\ comps[last.fiber].stats.sent = HistoryLimit - 1

StatusesOf(address) == {o.status : o \in PingOutcomes(address)}

\* C20: a probe in flight is untouched by the edits of its panel; it
\* completes with an outcome of the address it started with, and its result
\* is put in front of the history and counted once; a probe that starts
\* takes the current address of its panel, and an armed interval has the
\* current delay.
C20_EditDuringProbe ==
    /\ [](\A f \in DOMAIN comps :
             comps[f].timers # {} => comps[f].timerMs = comps[f].interval)
    /\ [][  /\ last'.op \in PanelEdits => inflight' = inflight
            /\ \A p \in inflight \ inflight' :
                  /\ last'.op = "complete"
                  /\ last'.target = p.target
                  /\ last'.result.status \in StatusesOf(p.target)
                  /\ p.fiber \in DOMAIN comps =>
                        /\ HistoryPrepended(comps[p.fiber].results,
                                            comps'[p.fiber].results, last'.result)
                        /\ Counters(comps'[p.fiber].stats)
                              = Counted(comps[p.fiber].stats, last'.result)
            /\ \A p \in inflight' \ inflight :
                  /\ p.fiber \in DOMAIN comps
                  /\ p.target = comps[p.fiber].target ]_vars

\* A probe of the gateway address completed after the address of its panel
\* was edited to a hostname, and its result is the newest of the history.
C20_Witness ==
    /\ TickApplied
    /\ last.target = Gateway
    /\ comps[last.fiber].target \in Hostnames
    /\ comps[last.fiber].results[1] = last.result

\* An interval of panel instance f is armed.
Armed(f) == f \in DOMAIN comps /\ comps[f].timers # {}

C22_EmptyAddRejected ==
    /\ [](\A i \in DOMAIN panels :
             panels[i].target # "" /\ panels[i].title # "")
    /\ [][last'.op = "addPanel" =>
             IF last'.target = "" \/ last'.title = ""
             THEN /\ panels' = panels
                  /\ panelStatuses' = panelStatuses
                  /\ comps' = comps
             ELSE /\ Len(panels') = Len(panels) + 1
                  /\ SubSeq(panels', 1, Len(panels)) = panels
                  /\ panels'[Len(panels')].target = last'.target
                  /\ panels'[Len(panels')].title = last'.title]_vars

\* The form was submitted with a title and no address, and nothing was added.
C22_Witness ==
    /\ last.op = "addPanel"
    /\ last.target = ""
    /\ last.title # ""
    /\ Len(panels) = 1
    /\ DOMAIN comps = {1}

\* C23: the ids of the entries of the registry are pairwise distinct.
C23_IdsPairwiseDistinct ==
    \A i, j \in DOMAIN panels : panels[i].id = panels[j].id => i = j

C25_SimulatedFailureIsTimeout ==
    (last.op = "complete" /\ IsIPv4Literal(last.target) /\ last.event.fails) =>
        /\ last.result.status = "timeout"
        /\ last.status = "offline"

\* C26: every event of the transport of a probe in flight gives a result
\* with one of the three statuses; a completed probe of a hostname is
\* 'timeout' when its fetch was aborted, 'error' with the message of the
\* rejection when it was rejected otherwise, and 'success' when it resolved.
C26_ProbeAlwaysClassified ==
    /\ \A p \in inflight : \A e \in TransportEvents(p.target) :
          performPing(p.target, e).status \in {"success", "timeout", "error"}
    /\ (last.op = "complete" /\ ~IsIPv4Literal(last.target)) =>
          LET e == last.event
              r == last.result
          IN /\ r.status \in {"success", "timeout", "error"}
             /\ (e.kind = "rejected" /\ e.name = "AbortError")
                   => r.status = "timeout"
             /\ (e.kind = "rejected" /\ e.name # "AbortError")
                   => (r.status = "error" /\ r.error = e.message)
             /\ e.kind = "resolved" => r.status = "success"

\* The fetch of a probe of a hostname was aborted and the result is a timeout.
C26_Witness ==
    /\ last.op = "complete"
    /\ ~IsIPv4Literal(last.target)
    /\ last.event.kind = "rejected"
    /\ last.event.name = "AbortError"
    /\ last.result.status = "timeout"

\* C27: every result of every history has a responseTime exactly when it is
\* a success and an error message exactly when it is a timeout or an error.
C27_OneFieldByStatus ==
    \A f \in DOMAIN comps : \A i \in DOMAIN comps[f].results :
        LET r == comps[f].results[i]
        IN /\ "responseTime" \in DOMAIN r <=> r.status = "success"
           /\ "error" \in DOMAIN r <=> r.status \in {"timeout", "error"}

\* A history holds a success, a timeout and an error.
C27_Witness ==
    \E f \in DOMAIN comps :
        {comps[f].results[i].status : i \in DOMAIN comps[f].results}
            = {"success", "timeout", "error"}

\* C28: a sound alert is emitted only for a result that is not a success and
\* only in a state in which the global sound and the sound of the panel are
\* both switched on.
C28_AlertOnlyWhileEnabled ==
    \A e \in emitted :
        e.kind = "sound" =>
            /\ last.op = "complete"
            /\ last.result.status # "success"
            /\ globalSoundEnabled
            /\ last.mounted => comps[last.fiber].soundEnabled

\* C29: the interval of every panel is a positive integer.
C29_IntervalPositive ==
    \A f \in DOMAIN comps : comps[f].interval \in Nat \ {0}

\* C30: at the start every panel has sent as many probes as its history
\* holds and received as many as the history has successes; a step that
\* completes a probe of a panel adds one to its sent counter, and one to its
\* received counter exactly for a success; no other step changes the two
\* counters of a panel, and a panel is mounted with both at 0.
C30_CountersAccumulate ==
    /\ \A f \in DOMAIN comps :
          /\ comps[f].stats.sent = Len(comps[f].results)
          /\ comps[f].stats.received = SuccessCount(comps[f].results)
    /\ [][  /\ \A f \in DOMAIN comps' \ DOMAIN comps :
                  comps'[f].stats.sent = 0 /\ comps'[f].stats.received = 0
            /\ \A f \in DOMAIN comps \cap DOMAIN comps' :
                  IF last'.op = "complete" /\ last'.fiber = f
                  THEN /\ comps'[f].stats.sent = comps[f].stats.sent + 1
                       /\ comps'[f].stats.received = comps[f].stats.received
                             + (IF last'.result.status = "success" THEN 1 ELSE 0)
                  ELSE /\ comps'[f].stats.sent = comps[f].stats.sent
                       /\ comps'[f].stats.received = comps[f].stats.received
          ]_vars

\* A probe completed on a full history: the counter is past the number of
\* results the history holds.
C30_Witness ==
    /\ TickApplied
    /\ Len(comps[last.fiber].results) = HistoryLimit
    /\ comps[last.fiber].stats.sent = HistoryLimit + 1
    /\ comps[last.fiber].stats.received < comps[last.fiber].stats.sent

\* C31: the verdict is unknown at the start of a page; a verdict that is
\* connected or disconnected never becomes unknown again; and the verdict
\* changes only in the step of a status event that appends its sample to
\* the window, to the value the threshold gives for the new window.
C31_VerdictLeavesUnknownOnce ==
    /\ (last.op = "init" /\ done = 0) => internetConnected = Null
    /\ [][  /\ internetConnected # Null => internetConnected' # Null
            /\ internetConnected' # internetConnected =>
                  /\ last'.op = "complete"
                  /\ done' = done + 1
                  /\ packetLossHistory'
                        = NewLossHistory(packetLossHistory, last'.status)
                  /\ Len(packetLossHistory') >= WindowMin
                  /\ internetConnected'
                        = BoolStr(IsConnected(packetLossHistory')) ]_vars

\* The first probe after a window of one loss in twenty failed, and the
\* verdict went from connected to disconnected.
C31_Witness ==
    /\ last.op = "complete"
    /\ done = HistoryLimit
    /\ last.status # "online"
    /\ Len(packetLossHistory) = WindowLimit
    /\ internetConnected = "false"

\* The interval of a panel: the armed ids, the id intervalRef names, the
\* delay, and the history the callback of the interval closed over (an
\* interval keeps its callback, so another closure is another interval).
TimerOf(c) == <<c.timers, c.intervalRef, c.timerMs, c.closedResults>>

\* The commands of a panel that stop, start or re-set its interval.
TimerCommands == {"toggleRunning", "setTarget", "setInterval"}

\* C32: a step that changes the interval of a panel that stays mounted is a
\* command of that panel that edits its address or its delay or toggles its
\* running flag; no other step clears or re-sets the interval.
C32_OnlyOwnCommandsRestart ==
    [][ \A f \in DOMAIN comps \cap DOMAIN comps' :
           TimerOf(comps'[f]) # TimerOf(comps[f]) =>
              last'.op \in TimerCommands /\ last'.fiber = f ]_vars

\* C33: in every state the history of a panel holds min(sent, 100) results,
\* and no more successes than the panel has received.
C33_StatsMatchHistory ==
    \A f \in DOMAIN comps :
        /\ Len(comps[f].results) = Min(comps[f].stats.sent, HistoryLimit)
        /\ SuccessCount(comps[f].results) <= comps[f].stats.received

\* A success was applied to a full history: the panel has sent more probes
\* than its history holds.
C33_Witness ==
    /\ TickApplied
    /\ last.result.status = "success"
    /\ comps[last.fiber].stats.sent > HistoryLimit
    /\ Len(comps[last.fiber].results) = HistoryLimit

\* C34: a status event of a mounted panel whose probe was of the address
\* the panel has now appends its sample to the connectivity window when
\* that address is the gateway address, and leaves the window as it is when
\* it is another address.
C34_DesignationFollowsAddress ==
    [][ (/\ last'.op = "complete"
         /\ last'.mounted
         /\ comps[last'.fiber].target = last'.target) =>
            packetLossHistory'
               = IF last'.target = Gateway
                 THEN NewLossHistory(packetLossHistory, last'.status)
                 ELSE packetLossHistory ]_vars

\* The registry entries other than those of panel instance f.
OtherPanels(f) == {i \in DOMAIN panels : panels[i].fiber # f}

\* The status recorded for an id; <<>> when none is.
RecordedFor(statuses, id) ==
    IF id \in DOMAIN statuses THEN <<statuses[id]>> ELSE <<>>

\* C35: a step that completes a probe of one panel leaves the history, the
\* statistics and the status of every other panel of the registry, and the
\* status recorded for every other panel, as they are.
C35_TickChangesOwnTargetOnly ==
    [][ last'.op = "complete" =>
           \A i \in OtherPanels(last'.fiber) :
              LET f == panels[i].fiber
              IN /\ panels' = panels
                 /\ comps'[f].results = comps[f].results
                 /\ comps'[f].stats = comps[f].stats
                 /\ comps'[f].currentStatus = comps[f].currentStatus
                 /\ RecordedFor(panelStatuses', panels[i].id)
                       = RecordedFor(panelStatuses, panels[i].id) ]_vars

\* C36: on the pages that raise "Connection Lost", a step raises it only
\* when it is a status event whose status is offline or error, a status was
\* recorded for the id before the step and differs from the new one, and
\* the global sound is switched on.
C36_ConnectionLostOnlyOnChange ==
    [][ \A e \in ToastsOf(emitted') :
           e.title = "Connection Lost" =>
              /\ last'.op = "complete"
              /\ last'.status \in {"offline", "error"}
              /\ e.status = last'.status
              /\ last'.id \in DOMAIN panelStatuses
              /\ panelStatuses[last'.id] # last'.status
              /\ globalSoundEnabled' ]_vars

====
